---- MODULE Spec2Model ----
(***************************************************************************)
(* The RandomUser ingestion pipeline: fetch -> transform (hash / encrypt   *)
(* PII, drop plaintext) -> upsert into data/random_users.csv -> metrics.   *)
(*                                                                         *)
(* Strings are sequences of one-character strings, so that strip(),        *)
(* lower() and "+" are computed on the characters.  A cell of a DataFrame  *)
(* or of the CSV file is a record [k, s, n]:                               *)
(*   k = "str"     a Python str with the characters s                      *)
(*   k = "nan"     the float NaN pandas puts where a value is missing      *)
(*   k = "argon2"  the Argon2id hash string of the characters s, salt n    *)
(*   k = "fernet"  the Fernet token of the characters s, IV n              *)
(*   k = "hmac"    the HMAC-SHA256 hex digest of the characters s          *)
(*   k = "error"   the call raised                                         *)
(***************************************************************************)
EXTENDS Naturals, Sequences, FiniteSets, TLC

\* ------------------------------------------------------------------ bounds
\* Number of distinct login.uuid values the API can return.
MaxIds == 2
\* Largest number of users in one API response.
MaxBatch == 2
\* Number of ingestion runs started in one behaviour.
MaxRuns == 2
\* Number of threads that may run the job at once (the server's thread pool).
MaxWorkers == 2
\* Number of times the same batch is merged when the merge is called directly.
MaxCalls == 2
\* Largest number of characters of an email drawn for the field protection.
MaxEmailLen == 3

\* ----------------------------------------------------------------- strings
Str(s) == [k |-> "str", s |-> s, n |-> 0]
NaN == [k |-> "nan", s |-> <<>>, n |-> 0]
Raised == [k |-> "error", s |-> <<>>, n |-> 0]

Digits == <<"1", "2", "3", "4", "5", "6", "7", "8", "9">>
Uuid(i) == <<"u", Digits[i]>>
Uuids == {Uuid(i) : i \in 1..MaxIds}

\* Passwords the API may return, the empty one included.
Passwords == {<<>>, <<"p", "w">>}
Email == <<" ", "A", "@", "x">>
Phone == <<"5", "5", "5">>
Street == <<"e", "l", "m">>

\* ------------------------------------------------------------ crypto_utils
PEPPER == <<"#">>

\* ph.hash(pw + PEPPER): a float NaN + str raises TypeError.
hash_password(pw, salt) ==
    IF pw.k = "str" THEN [k |-> "argon2", s |-> pw.s \o PEPPER, n |-> salt]
    ELSE Raised

NoEncrypt(v, iv) == v

\* encrypt_str with one IV for every call.
EncryptFixedIV(v, iv) ==
    IF v.k = "str" THEN [k |-> "fernet", s |-> v.s, n |-> 0] ELSE Raised

\* fernet.encrypt(s.encode()).decode(): a float has no encode().
encrypt_str(v, iv) ==
    IF v.k = "str" THEN [k |-> "fernet", s |-> v.s, n |-> iv] ELSE Raised

\* fernet.decrypt(token.encode()).decode() on the same fernet object:
\* InvalidToken on anything that object did not encrypt.
fernet_decrypt(tok) ==
    IF tok.k = "fernet" THEN Str(tok.s) ELSE Raised

IsSpace(c) == c \in {" ", "\t", "\n", "\r"}

RECURSIVE LStrip(_)
LStrip(s) == IF s # <<>> /\ IsSpace(Head(s)) THEN LStrip(Tail(s)) ELSE s

RECURSIVE RStrip(_)
RStrip(s) ==
    IF s # <<>> /\ IsSpace(s[Len(s)]) THEN RStrip(SubSeq(s, 1, Len(s) - 1)) ELSE s

LowerChar(c) ==
    CASE c = "A" -> "a" [] c = "B" -> "b" [] c = "N" -> "n" [] c = "X" -> "x"
      [] OTHER -> c

\* normalize_email without the strip().
LowerOnly(v) ==
    IF v.k = "str" THEN Str([i \in 1..Len(v.s) |-> LowerChar(v.s[i])]) ELSE Raised

\* s.strip().lower()
normalize_email(v) ==
    IF v.k = "str"
    THEN LET t == RStrip(LStrip(v.s)) IN Str([i \in 1..Len(t) |-> LowerChar(t[i])])
    ELSE Raised

\* hmac.new(BLIND_INDEX_KEY, s.encode(), hashlib.sha256).hexdigest()
blind_index(v) ==
    IF v.k = "str" THEN [k |-> "hmac", s |-> v.s, n |-> 0] ELSE Raised

\* ------------------------------------------------- crypto_utils, at import
\* The characters of the base64 alphabets that occur in the modelled keys.
B64Alphabet == {"A", "Q", "Y", "W"}

Rep(ch, n) == [i \in 1..n |-> ch]

Count(s, set) == Cardinality({i \in 1..Len(s) : s[i] \in set})

\* base64.b64decode(s) / base64.urlsafe_b64decode(s), validate=False: the
\* characters outside the alphabet are discarded; binascii.Error when the
\* data characters left do not make whole groups with their padding.  Of the
\* decoded bytes the model keeps their number n.
b64decode(s) ==
    LET c == Count(s, B64Alphabet)
        p == Count(s, {"="})
        r == c % 4
    IN IF r = 1 \/ (r = 2 /\ p < 2) \/ (r = 3 /\ p < 1)
       THEN [ok |-> FALSE, n |-> 0]
       ELSE [ok |-> TRUE,
             n |-> 3 * (c \div 4) + (IF r = 0 THEN 0 ELSE r - 1)]

\* Fernet(key): ValueError unless the key decodes to 32 bytes.
Fernet(key) ==
    LET d == b64decode(key)
    IN IF d.ok /\ d.n = 32 THEN [ok |-> TRUE, n |-> d.n]
       ELSE [ok |-> FALSE, n |-> 0]

\* Texts a variable of .env may hold: a 32-byte key, a 16-byte key, a text
\* with a dangling character, a text of no base64 character, the empty text.
GoodKey == Rep("A", 43) \o <<"=">>
ShortKey == Rep("A", 22) \o <<"=", "=">>
BadPadding == Rep("A", 5)
JunkKey == <<"!", "!", "!", "!">>
EmptyKey == <<>>

SecretNames == {"PEPPER", "FERNET_KEY", "BLIND_INDEX_KEY"}

SecretTexts(name) ==
    CASE name = "PEPPER" -> {PEPPER}
      [] name = "FERNET_KEY" -> {GoodKey, ShortKey, BadPadding, JunkKey}
      [] name = "BLIND_INDEX_KEY" -> {GoodKey, BadPadding, JunkKey, EmptyKey}

\* os.environ after load_dotenv: any of the three variables may be absent.
Environs ==
    UNION { {e \in [D -> {PEPPER, GoodKey, ShortKey, BadPadding, JunkKey, EmptyKey}] :
               \A name \in D : e[name] \in SecretTexts(name)} :
            D \in SUBSET SecretNames }

GoodEnviron ==
    [name \in SecretNames |->
       IF name = "PEPPER" THEN PEPPER ELSE GoodKey]

NotImported == [state |-> "unimported"]
ImportRaised == [state |-> "raised"]

\* The module body of crypto_utils.py run on os.environ = env: KeyError on
\* an absent variable, binascii.Error from b64decode, ValueError from
\* Fernet(); else the module's globals (of each key, its number of bytes).
LoadSecrets(env) ==
    IF ~(SecretNames \subseteq DOMAIN env) THEN ImportRaised
    ELSE IF ~b64decode(env["BLIND_INDEX_KEY"]).ok THEN ImportRaised
    ELSE IF ~Fernet(env["FERNET_KEY"]).ok THEN ImportRaised
    ELSE [state |-> "imported",
          PEPPER |-> env["PEPPER"],
          fernet |-> Fernet(env["FERNET_KEY"]).n,
          BLIND_INDEX_KEY |-> b64decode(env["BLIND_INDEX_KEY"]).n]

\* --------------------------------------------------------------- api_client
\* One user object of the API's "results" array.
UserWith(u, f, p) ==
    [login |-> [uuid |-> u, password |-> p], name |-> [first |-> f],
     email |-> Email, phone |-> Phone,
     location |-> [street |-> [name |-> Street]]]

\* A user object that lacks login.password.
UserWithoutPassword(u, f) ==
    [login |-> [uuid |-> u], name |-> [first |-> f],
     email |-> Email, phone |-> Phone,
     location |-> [street |-> [name |-> Street]]]

\* Per id: an ordinary user, one named "NA", one with an empty password and
\* one without the password field.
RawUsers ==
    UNION { { UserWith(u, <<"a", "n", "n">>, <<"p", "w">>),
              UserWith(u, <<"N", "A">>, <<"p", "w">>),
              UserWith(u, <<"a", "n", "n">>, <<>>),
              UserWithoutPassword(u, <<"a", "n", "n">>) } : u \in Uuids }

Batches == UNION { [1..n -> RawUsers] : n \in 0..MaxBatch }

\* ---------------------------------------------------------- transformations
SelectedColumns ==
    {"login.uuid", "name.first", "email", "location.street.name",
     "login.password", "phone"}

PlaintextColumns == {"login.password", "email", "phone", "location.street.name"}

ProtectedColumns ==
    {"password_hash", "email_enc", "phone_enc", "street_name_enc", "email_bidx"}

\* The flattened (dotted-path) keys of one nested user dict.
FlatKeys(u) ==
    (IF "login" \in DOMAIN u
       THEN {"login." \o f : f \in DOMAIN u.login} ELSE {})
    \cup (IF "name" \in DOMAIN u THEN {"name.first"} ELSE {})
    \cup (IF "location" \in DOMAIN u THEN {"location.street.name"} ELSE {})
    \cup (DOMAIN u \cap {"email", "phone"})

FlatValue(u, c) ==
    CASE c = "login.uuid" -> u.login.uuid
      [] c = "login.password" -> u.login.password
      [] c = "name.first" -> u.name.first
      [] c = "location.street.name" -> u.location.street.name
      [] c = "email" -> u.email
      [] c = "phone" -> u.phone

\* pd.json_normalize(users): one column per flattened key any user has, NaN
\* where a user lacks the key.
json_normalize(users) ==
    LET cols == UNION {FlatKeys(users[i]) : i \in 1..Len(users)}
    IN [cols |-> cols,
        rows |-> [i \in 1..Len(users) |->
                    [c \in cols |-> IF c \in FlatKeys(users[i])
                                    THEN Str(FlatValue(users[i], c)) ELSE NaN]]]

EmptyFrame == [cols |-> {}, rows |-> <<>>]

\* df[[...]].copy(): KeyError unless every selected column exists.
SelectColumns(df, want) ==
    [cols |-> want,
     rows |-> [i \in 1..Len(df.rows) |-> [c \in want |-> df.rows[i][c]]]]

\* df.loc[:, new] = cells, the values df[old].apply(f) returned.
WithColumn(df, new, cells) ==
    [cols |-> df.cols \cup {new},
     rows |-> [i \in 1..Len(df.rows) |->
                 [c \in df.cols \cup {new} |->
                    IF c = new THEN cells[i] ELSE df.rows[i][c]]]]

\* df.drop(columns=[...], inplace=True)
DropColumnsKeepingEmail(df, gone) ==
    [cols |-> df.cols \ (gone \ {"email"}),
     rows |-> [i \in 1..Len(df.rows) |->
                 [c \in df.cols \ (gone \ {"email"}) |-> df.rows[i][c]]]]

DropColumns(df, gone) ==
    [cols |-> df.cols \ gone,
     rows |-> [i \in 1..Len(df.rows) |-> [c \in df.cols \ gone |-> df.rows[i][c]]]]

HasRaised(df) ==
    \E i \in 1..Len(df.rows) : \E c \in df.cols : df.rows[i][c].k = "error"

\* The five protected columns, applied column by column over the selected
\* frame; the i-th call of the j-th randomized column draws the fresh salt
\* or IV rng + (j-1)*n + i.
Protect(sel, rng) ==
    LET n == Len(sel.rows)
        col(name) == [i \in 1..n |-> sel.rows[i][name]]
        a == WithColumn(sel, "password_hash",
               [i \in 1..n |-> hash_password(col("login.password")[i], rng + i)])
        b == WithColumn(a, "email_enc",
               [i \in 1..n |-> encrypt_str(col("email")[i], rng + n + i)])
        c == WithColumn(b, "phone_enc",
               [i \in 1..n |-> encrypt_str(col("phone")[i], rng + 2 * n + i)])
        d == WithColumn(c, "street_name_enc",
               [i \in 1..n |->
                  encrypt_str(col("location.street.name")[i], rng + 3 * n + i)])
    IN WithColumn(d, "email_bidx",
         [i \in 1..n |-> blind_index(normalize_email(col("email")[i]))])

\* transform_users(users): (df_raw, df_secure), or an exception: KeyError
\* when a selected column is missing from every user (an empty response
\* included), TypeError / AttributeError when a protected field is NaN.
transform_users(users, rng) ==
    LET df_raw == json_normalize(users)
    IN IF ~(SelectedColumns \subseteq df_raw.cols)
       THEN [ok |-> FALSE, df_raw |-> EmptyFrame, df_secure |-> EmptyFrame]
       ELSE LET prot == Protect(SelectColumns(df_raw, SelectedColumns), rng)
            IN IF HasRaised(prot)
               THEN [ok |-> FALSE, df_raw |-> EmptyFrame, df_secure |-> EmptyFrame]
               ELSE [ok |-> TRUE, df_raw |-> df_raw,
                     df_secure |-> DropColumns(prot, PlaintextColumns)]

\* ---------------------------------------------------------------- io_utils
\* Cell texts pandas.read_csv reads as missing (its default na_values).
NaStrings ==
    {<<>>, <<"N", "A">>, <<"N", "a", "N">>, <<"n", "a", "n">>,
     <<"N", "U", "L", "L">>, <<"n", "u", "l", "l">>, <<"N", "o", "n", "e">>,
     <<"N", "/", "A">>, <<"n", "/", "a">>}

\* One cell of the file as pd.read_csv loads it.
ReadCsvCell(t) == IF t.k = "str" /\ t.s \in NaStrings THEN NaN ELSE t

\* One cell of a frame as to_csv writes it (na_rep = "").
ToCsvCell(v) == IF v.k = "nan" THEN Str(<<>>) ELSE v

NoFile == [exists |-> FALSE, hdr |-> {}, rows |-> <<>>]
\* The file right after open(path, "w"): it exists and holds no byte.
Truncated == [exists |-> TRUE, hdr |-> {}, rows |-> <<>>]

\* pd.read_csv(csv_path): EmptyDataError on a file with no header line.
read_csv(f) ==
    IF f.hdr = {}
    THEN [ok |-> FALSE, df |-> EmptyFrame]
    ELSE [ok |-> TRUE,
          df |-> [cols |-> f.hdr,
                  rows |-> [i \in 1..Len(f.rows) |->
                              [c \in f.hdr |-> ReadCsvCell(f.rows[i][c])]]]]

\* concat that returns the new rows only.
ConcatNewOnly(a, b) == b

\* pd.concat([a, b], ignore_index=True): the union of the columns, NaN where
\* a frame lacks one.
concat(a, b) ==
    LET cols == a.cols \cup b.cols
        fill(df) == [i \in 1..Len(df.rows) |->
                       [c \in cols |-> IF c \in df.cols THEN df.rows[i][c] ELSE NaN]]
    IN [cols |-> cols, rows |-> fill(a) \o fill(b)]

RECURSIVE KeepFirst(_, _, _)
KeepFirst(rows, key, seen) ==
    IF rows = <<>> THEN <<>>
    ELSE IF Head(rows)[key] \in seen
         THEN KeepFirst(Tail(rows), key, seen)
         ELSE <<Head(rows)>> \o KeepFirst(Tail(rows), key, seen \cup {Head(rows)[key]})

NoDropDuplicates(df) == df

\* df.drop_duplicates(subset=["login.uuid"]): the first row of each id stays.
drop_duplicates(df) ==
    [cols |-> df.cols, rows |-> KeepFirst(df.rows, "login.uuid", {})]

\* The lines df.to_csv(csv_path, index=False) writes.
to_csv(df) ==
    [exists |-> TRUE, hdr |-> df.cols,
     rows |-> [i \in 1..Len(df.rows) |-> [c \in df.cols |-> ToCsvCell(df.rows[i][c])]]]

\* The file after a writer that opened it earlier writes `lines` from offset
\* 0: what another writer put beyond them since stays.
Overwrite(f, lines) ==
    [exists |-> TRUE, hdr |-> lines.hdr,
     rows |-> lines.rows \o SubSeq(f.rows, Len(lines.rows) + 1, Len(f.rows))]

\* MergeFrame that takes an unreadable store for an absent one.
MergeFrameIgnoringUnreadable(f, new_rows) ==
    IF f.exists /\ read_csv(f).ok
    THEN [ok |-> TRUE, df |-> drop_duplicates(concat(read_csv(f).df, new_rows))]
    ELSE [ok |-> TRUE, df |-> drop_duplicates(new_rows)]

\* MergeFrame that drops the duplicates only when it has read a store.
MergeFrameNoDedupOnCreate(f, new_rows) ==
    IF f.exists
    THEN LET ld == read_csv(f)
         IN IF ld.ok
            THEN [ok |-> TRUE, df |-> drop_duplicates(concat(ld.df, new_rows))]
            ELSE [ok |-> FALSE, df |-> EmptyFrame]
    ELSE [ok |-> TRUE, df |-> new_rows]

\* The frame upsert_random_users_csv builds before it writes.
MergeFrame(f, new_rows) ==
    IF f.exists
    THEN LET ld == read_csv(f)
         IN IF ld.ok
            THEN [ok |-> TRUE, df |-> drop_duplicates(concat(ld.df, new_rows))]
            ELSE [ok |-> FALSE, df |-> EmptyFrame]
    ELSE [ok |-> TRUE, df |-> drop_duplicates(new_rows)]

\* upsert_random_users_csv run from start to end with nothing in between.
upsert_random_users_csv(f, new_rows) ==
    LET m == MergeFrame(f, new_rows)
    IN IF m.ok THEN [ok |-> TRUE, df_final |-> m.df, file |-> to_csv(m.df)]
       ELSE [ok |-> FALSE, df_final |-> EmptyFrame, file |-> f]

\* ----------------------------------------------------------- API_Ingestion
\* The standalone script: its own copies of the four field functions, and
\* main() with the select, protect, drop and merge steps inline.
script_hash_password(pw, salt) ==
    IF pw.k = "str" THEN [k |-> "argon2", s |-> pw.s \o PEPPER, n |-> salt]
    ELSE Raised

script_encrypt_str(v, iv) ==
    IF v.k = "str" THEN [k |-> "fernet", s |-> v.s, n |-> iv] ELSE Raised

script_normalize_email(v) ==
    IF v.k = "str"
    THEN LET t == RStrip(LStrip(v.s))
         IN Str([i \in 1..Len(t) |-> LowerChar(t[i])])
    ELSE Raised

script_blind_index(v) ==
    IF v.k = "str" THEN [k |-> "hmac", s |-> v.s, n |-> 0] ELSE Raised

\* main_cols = df[[...]].copy(): the columns main() selects.
MainCols ==
    {"login.uuid", "name.first", "email", "location.street.name",
     "login.password", "phone"}

\* The columns main() drops after protecting them.
MainDropped == {"login.password", "email", "phone", "location.street.name"}

\* main(), from json_normalize to the drop of the plaintext columns: the
\* frame main_cols, or an exception.
MainProtect(users, rng) ==
    LET df == json_normalize(users)
        n == Len(users)
    IN IF ~(MainCols \subseteq df.cols)
       THEN [ok |-> FALSE, df |-> df, main_cols |-> EmptyFrame]
       ELSE LET sel == SelectColumns(df, MainCols)
                a == WithColumn(sel, "password_hash",
                       [i \in 1..n |->
                          script_hash_password(sel.rows[i]["login.password"],
                                               rng + i)])
                b == WithColumn(a, "email_enc",
                       [i \in 1..n |->
                          script_encrypt_str(a.rows[i]["email"], rng + n + i)])
                c == WithColumn(b, "phone_enc",
                       [i \in 1..n |->
                          script_encrypt_str(b.rows[i]["phone"],
                                             rng + 2 * n + i)])
                d == WithColumn(c, "street_name_enc",
                       [i \in 1..n |->
                          script_encrypt_str(c.rows[i]["location.street.name"],
                                             rng + 3 * n + i)])
                e == WithColumn(d, "email_bidx",
                       [i \in 1..n |->
                          script_blind_index(
                            script_normalize_email(d.rows[i]["email"]))])
            IN IF HasRaised(e)
               THEN [ok |-> FALSE, df |-> df, main_cols |-> EmptyFrame]
               ELSE [ok |-> TRUE, df |-> df,
                     main_cols |-> DropColumns(e, MainDropped)]

\* MainMerge with the incoming rows put before the existing ones.
MainMergeNewFirst(f, main_cols) ==
    IF f.exists
    THEN LET ld == read_csv(f)
         IN IF ld.ok
            THEN [ok |-> TRUE,
                  df |-> drop_duplicates(concat(main_cols, ld.df))]
            ELSE [ok |-> FALSE, df |-> EmptyFrame]
    ELSE [ok |-> TRUE, df |-> drop_duplicates(main_cols)]

\* main(), from csv_file.exists() to drop_duplicates: df_final, or the
\* exception of read_csv.
MainMerge(f, main_cols) ==
    IF f.exists
    THEN LET ld == read_csv(f)
         IN IF ld.ok
            THEN [ok |-> TRUE,
                  df |-> drop_duplicates(concat(ld.df, main_cols))]
            ELSE [ok |-> FALSE, df |-> EmptyFrame]
    ELSE [ok |-> TRUE, df |-> drop_duplicates(main_cols)]

\* ------------------------------------------------------------------- state
VARIABLES
    csv_file,      \* data/random_users.csv: [exists, hdr, rows]
    rng,           \* salts and IVs drawn so far (each draw is fresh)
    started,       \* runs started so far
    calls,         \* direct calls of upsert_random_users_csv so far
    pc,            \* per worker: where its run_ingestion_job stands
    users,         \* per worker: the fetched "results" list
    df_raw,        \* per worker: transform_users' first result
    df_secure,     \* per worker: transform_users' second result
    store_before,  \* per worker: the file as upsert found it
    df_final,      \* per worker: the merged, deduplicated frame
    metrics,       \* per worker: the dict run_ingestion_job returns
    environ,       \* os.environ: the secrets' texts, by variable name
    crypto_utils,  \* the crypto_utils module: not imported, raised, or its globals
    script         \* API_Ingestion.py run beside the job: [pc, csv_file]

vars ==
    <<csv_file, rng, started, calls, pc, users, df_raw, df_secure,
      store_before, df_final, metrics, environ, crypto_utils, script>>

Workers == 1..MaxWorkers

NoMetrics == [none |-> TRUE]

\* No API_Ingestion.py process is being compared.
NoScript == [pc |-> "none", csv_file |-> NoFile]

Init ==
    /\ csv_file = NoFile
    /\ rng = 0
    /\ started = 0
    /\ calls = 0
    /\ pc = [w \in Workers |-> "idle"]
    /\ users = [w \in Workers |-> <<>>]
    /\ df_raw = [w \in Workers |-> EmptyFrame]
    /\ df_secure = [w \in Workers |-> EmptyFrame]
    /\ store_before = [w \in Workers |-> NoFile]
    /\ df_final = [w \in Workers |-> EmptyFrame]
    /\ metrics = [w \in Workers |-> NoMetrics]
    /\ environ = GoodEnviron
    /\ crypto_utils = LoadSecrets(GoodEnviron)
    /\ script = NoScript

\* ------------------------------------------------------------ job / server
\* job.py:40, fetch_random_users returns the "results" list.
Fetch(w) ==
    /\ crypto_utils.state = "imported"
    /\ pc[w] = "idle"
    /\ started < MaxRuns
    /\ \E b \in Batches : users' = [users EXCEPT ![w] = b]
    /\ started' = started + 1
    /\ pc' = [pc EXCEPT ![w] = "fetched"]
    /\ UNCHANGED <<csv_file, rng, calls, df_raw, df_secure, store_before,
                   df_final, metrics, environ, crypto_utils, script>>

\* FetchFails that also creates / cuts the store file.
FetchFailsTruncating(w) ==
    /\ crypto_utils.state = "imported"
    /\ pc[w] = "idle"
    /\ started < MaxRuns
    /\ started' = started + 1
    /\ csv_file' = Truncated
    /\ pc' = [pc EXCEPT ![w] = "failed"]
    /\ UNCHANGED <<rng, calls, users, df_raw, df_secure, store_before,
                   df_final, metrics, environ, crypto_utils, script>>

\* job.py:40, resp.raise_for_status() (or the timeout) raises.
FetchFails(w) ==
    /\ crypto_utils.state = "imported"
    /\ pc[w] = "idle"
    /\ started < MaxRuns
    /\ started' = started + 1
    /\ pc' = [pc EXCEPT ![w] = "failed"]
    /\ UNCHANGED <<csv_file, rng, calls, users, df_raw, df_secure,
                   store_before, df_final, metrics, environ, crypto_utils,
                   script>>

\* job.py:44, transform_users(users); an exception ends the run (what it
\* drew before raising is stored nowhere, so rng stays).
Transform(w) ==
    /\ pc[w] = "fetched"
    /\ LET t == transform_users(users[w], rng)
       IN IF t.ok
          THEN /\ df_raw' = [df_raw EXCEPT ![w] = t.df_raw]
               /\ df_secure' = [df_secure EXCEPT ![w] = t.df_secure]
               /\ rng' = rng + 4 * Len(users[w])
               /\ pc' = [pc EXCEPT ![w] = "transformed"]
          ELSE /\ pc' = [pc EXCEPT ![w] = "failed"]
               /\ UNCHANGED <<df_raw, df_secure, rng>>
    /\ UNCHANGED <<csv_file, started, calls, users, store_before, df_final,
                   metrics, environ, crypto_utils, script>>

\* io_utils.py:20-34, mkdir, exists(), read_csv, concat, drop_duplicates.
MergeRead(w) ==
    /\ pc[w] = "transformed"
    /\ LET m == MergeFrame(csv_file, df_secure[w])
       IN IF m.ok
          THEN /\ df_final' = [df_final EXCEPT ![w] = m.df]
               /\ store_before' = [store_before EXCEPT ![w] = csv_file]
               /\ pc' = [pc EXCEPT ![w] = "merged"]
          ELSE /\ pc' = [pc EXCEPT ![w] = "failed"]
               /\ UNCHANGED <<df_final, store_before>>
    /\ UNCHANGED <<csv_file, rng, started, calls, users, df_raw, df_secure,
                   metrics, environ, crypto_utils, script>>

\* io_utils.py:37, to_csv opens csv_path with mode "w": the file is created
\* or cut to no bytes.
OpenForWrite(w) ==
    /\ pc[w] = "merged"
    /\ csv_file' = Truncated
    /\ pc' = [pc EXCEPT ![w] = "opened"]
    /\ UNCHANGED <<rng, started, calls, users, df_raw, df_secure,
                   store_before, df_final, metrics, environ, crypto_utils,
                   script>>

\* io_utils.py:37, to_csv writes its buffered lines from offset 0 and closes.
WriteAndClose(w) ==
    /\ pc[w] = "opened"
    /\ csv_file' = Overwrite(csv_file, to_csv(df_final[w]))
    /\ pc' = [pc EXCEPT ![w] = "written"]
    /\ UNCHANGED <<rng, started, calls, users, df_raw, df_secure,
                   store_before, df_final, metrics, environ, crypto_utils,
                   script>>

\* io_utils.py:37, the write raises OSError (disk full) or the process is
\* killed before the buffer reaches the file.
WriteFails(w) ==
    /\ pc[w] = "opened"
    /\ pc' = [pc EXCEPT ![w] = "failed"]
    /\ UNCHANGED <<csv_file, rng, started, calls, users, df_raw, df_secure,
                   store_before, df_final, metrics, environ, crypto_utils,
                   script>>

\* JobMetrics that counts the fetched rows on the merged frame.
JobMetricsFetchedFromFinal(dfr, dff) ==
    [http_status |-> 200, retries_used |-> 0,
     rows_fetched |-> Len(dff.rows),
     rows_after_dedup |-> Len(dff.rows),
     csv_path |-> "data/random_users.csv"]

\* job.py:52-79, the metrics dict.
JobMetrics(dfr, dff) ==
    [http_status |-> 200, retries_used |-> 0,
     rows_fetched |-> Len(dfr.rows),
     rows_after_dedup |-> Len(dff.rows),
     csv_path |-> "data/random_users.csv"]

\* Metrics taken from the merged frame before it is written.
MetricsBeforeWrite(w) ==
    /\ pc[w] = "merged"
    /\ metrics' = [metrics EXCEPT ![w] = JobMetrics(df_raw[w], df_final[w])]
    /\ pc' = [pc EXCEPT ![w] = "done"]
    /\ UNCHANGED <<csv_file, rng, started, calls, users, df_raw, df_secure,
                   store_before, df_final, environ, crypto_utils, script>>

\* job.py:52-97, collect and return the metrics.
Metrics(w) ==
    /\ pc[w] = "written"
    /\ metrics' = [metrics EXCEPT ![w] = JobMetrics(df_raw[w], df_final[w])]
    /\ pc' = [pc EXCEPT ![w] = "done"]
    /\ UNCHANGED <<csv_file, rng, started, calls, users, df_raw, df_secure,
                   store_before, df_final, environ, crypto_utils, script>>

\* The worker is free again; the finished run's locals are gone.
Return(w) ==
    /\ pc[w] \in {"done", "failed"}
    /\ started < MaxRuns
    /\ pc' = [pc EXCEPT ![w] = "idle"]
    /\ users' = [users EXCEPT ![w] = <<>>]
    /\ df_raw' = [df_raw EXCEPT ![w] = EmptyFrame]
    /\ df_secure' = [df_secure EXCEPT ![w] = EmptyFrame]
    /\ store_before' = [store_before EXCEPT ![w] = NoFile]
    /\ df_final' = [df_final EXCEPT ![w] = EmptyFrame]
    /\ metrics' = [metrics EXCEPT ![w] = NoMetrics]
    /\ UNCHANGED <<csv_file, rng, started, calls, environ, crypto_utils,
                   script>>

Step(w) ==
    \/ Fetch(w)
    \/ FetchFails(w)
    \/ Transform(w)
    \/ MergeRead(w)
    \/ OpenForWrite(w)
    \/ WriteAndClose(w)
    \/ WriteFails(w)
    \/ Metrics(w)
    \/ Return(w)

\* Runs one after the other: the cron job (job.py main), or the endpoints
\* called one at a time.
Next == Step(1)

Spec == Init /\ [][Next]_vars

\* Runs triggered while another is still going: api_server.py runs each
\* request's job on a thread of the pool.
NextConcurrent == \E w \in Workers : Step(w)

SpecConcurrent == Init /\ [][NextConcurrent]_vars

\* The merge called directly, several times with the same new_rows, on a
\* store an earlier run wrote (or on none).
GoodBatches == {b \in Batches : transform_users(b, 0).ok}

InitMerge ==
    /\ \E b \in GoodBatches :
         csv_file \in
           {NoFile,
            upsert_random_users_csv(NoFile, transform_users(b, 0).df_secure).file}
    /\ \E b \in GoodBatches :
         df_secure = [w \in Workers |->
                        IF w = 1 THEN transform_users(b, 4 * MaxBatch).df_secure
                        ELSE EmptyFrame]
    /\ rng = 8 * MaxBatch
    /\ started = 0
    /\ calls = 0
    /\ pc = [w \in Workers |-> IF w = 1 THEN "transformed" ELSE "idle"]
    /\ users = [w \in Workers |-> <<>>]
    /\ df_raw = [w \in Workers |-> EmptyFrame]
    /\ store_before = [w \in Workers |-> NoFile]
    /\ df_final = [w \in Workers |-> EmptyFrame]
    /\ metrics = [w \in Workers |-> NoMetrics]
    /\ environ = GoodEnviron
    /\ crypto_utils = LoadSecrets(GoodEnviron)
    /\ script = NoScript

\* io_utils.py:16-39, one whole call upsert_random_users_csv(new_rows).
UpsertCall ==
    /\ calls < MaxCalls
    /\ LET r == upsert_random_users_csv(csv_file, df_secure[1])
       IN /\ r.ok
          /\ csv_file' = r.file
          /\ df_final' = [df_final EXCEPT ![1] = r.df_final]
    /\ store_before' = [store_before EXCEPT ![1] = csv_file]
    /\ calls' = calls + 1
    /\ UNCHANGED <<rng, started, pc, users, df_raw, df_secure, metrics,
                   environ, crypto_utils, script>>

NextMerge == UpsertCall

SpecMerge == InitMerge /\ [][NextMerge]_vars

\* Process start: `from ingestion.job import run_ingestion_job` (api_server.py)
\* or `python -m ingestion.job` runs the module body of crypto_utils.py.
ImportCryptoUtils ==
    /\ crypto_utils = NotImported
    /\ crypto_utils' = LoadSecrets(environ)
    /\ UNCHANGED <<environ, csv_file, rng, started, calls, pc, users, df_raw,
                   df_secure, store_before, df_final, metrics, script>>

\* A process started on any .env, then runs made one after the other.
InitSecrets ==
    /\ environ \in Environs
    /\ crypto_utils = NotImported
    /\ csv_file = NoFile
    /\ rng = 0
    /\ started = 0
    /\ calls = 0
    /\ pc = [w \in Workers |-> "idle"]
    /\ users = [w \in Workers |-> <<>>]
    /\ df_raw = [w \in Workers |-> EmptyFrame]
    /\ df_secure = [w \in Workers |-> EmptyFrame]
    /\ store_before = [w \in Workers |-> NoFile]
    /\ df_final = [w \in Workers |-> EmptyFrame]
    /\ metrics = [w \in Workers |-> NoMetrics]
    /\ script = NoScript

NextSecrets == ImportCryptoUtils \/ Step(1)

SpecSecrets == InitSecrets /\ [][NextSecrets]_vars

\* transform_users called on two users whose emails are any texts of spaces
\* and letters in both cases.
EmailChars == {" ", "A", "a", "b"}

EmailTexts == UNION { [1..n -> EmailChars] : n \in 0..MaxEmailLen }

UserWithEmail(u, e) ==
    [UserWith(u, <<"a", "n", "n">>, <<"p", "w">>) EXCEPT !.email = e]

InitProtect ==
    /\ \E e1, e2 \in EmailTexts :
         users = [w \in Workers |->
                    IF w = 1
                    THEN <<UserWithEmail(Uuid(1), e1), UserWithEmail(Uuid(2), e2)>>
                    ELSE <<>>]
    /\ pc = [w \in Workers |-> IF w = 1 THEN "fetched" ELSE "idle"]
    /\ started = 1
    /\ csv_file = NoFile
    /\ rng = 0
    /\ calls = 0
    /\ df_raw = [w \in Workers |-> EmptyFrame]
    /\ df_secure = [w \in Workers |-> EmptyFrame]
    /\ store_before = [w \in Workers |-> NoFile]
    /\ df_final = [w \in Workers |-> EmptyFrame]
    /\ metrics = [w \in Workers |-> NoMetrics]
    /\ environ = GoodEnviron
    /\ crypto_utils = LoadSecrets(GoodEnviron)
    /\ script = NoScript

NextProtect == Transform(1)

SpecProtect == InitProtect /\ [][NextProtect]_vars

\* Two runs that have fetched any two batches and go through transform,
\* merge and metrics one after the other, in either order.
InitOrder ==
    /\ users \in [Workers -> Batches]
    /\ pc = [w \in Workers |-> "fetched"]
    /\ started = MaxWorkers
    /\ csv_file = NoFile
    /\ rng = 0
    /\ calls = 0
    /\ df_raw = [w \in Workers |-> EmptyFrame]
    /\ df_secure = [w \in Workers |-> EmptyFrame]
    /\ store_before = [w \in Workers |-> NoFile]
    /\ df_final = [w \in Workers |-> EmptyFrame]
    /\ metrics = [w \in Workers |-> NoMetrics]
    /\ environ = GoodEnviron
    /\ crypto_utils = LoadSecrets(GoodEnviron)
    /\ script = NoScript

\* Worker w's run is not under way.
AtRest(w) == pc[w] \in {"fetched", "done", "failed"}

SerialStep(w) ==
    /\ \A v \in Workers \ {w} : AtRest(v)
    /\ \/ Transform(w)
       \/ MergeRead(w)
       \/ OpenForWrite(w)
       \/ WriteAndClose(w)
       \/ WriteFails(w)
       \/ Metrics(w)

NextOrder == \E w \in Workers : SerialStep(w)

SpecOrder == InitOrder /\ [][NextOrder]_vars

\* run_ingestion_job and API_Ingestion.main side by side: each on its own
\* copy of the same prior store (none, an empty file, or what an earlier
\* run wrote), with the same fetched users.
PriorStores ==
    {NoFile, Truncated} \cup
    {upsert_random_users_csv(NoFile, transform_users(b, 0).df_secure).file :
       b \in GoodBatches}

InitScript ==
    /\ csv_file \in PriorStores
    /\ script = [pc |-> "fetched", csv_file |-> csv_file]
    /\ \E b \in Batches : users = [w \in Workers |-> IF w = 1 THEN b ELSE <<>>]
    /\ pc = [w \in Workers |-> IF w = 1 THEN "fetched" ELSE "idle"]
    /\ started = MaxRuns
    /\ rng = 4 * MaxBatch
    /\ calls = 0
    /\ df_raw = [w \in Workers |-> EmptyFrame]
    /\ df_secure = [w \in Workers |-> EmptyFrame]
    /\ store_before = [w \in Workers |-> NoFile]
    /\ df_final = [w \in Workers |-> EmptyFrame]
    /\ metrics = [w \in Workers |-> NoMetrics]
    /\ environ = GoodEnviron
    /\ crypto_utils = LoadSecrets(GoodEnviron)

\* API_Ingestion.py:142-228, main() after the fetch, to its end or to the
\* exception that ends it before the write.
ScriptMain ==
    /\ script.pc = "fetched"
    /\ LET p == MainProtect(users[1], rng)
           m == MainMerge(script.csv_file, p.main_cols)
       IN IF ~p.ok
          THEN /\ script' = [script EXCEPT !.pc = "failed"]
               /\ rng' = rng
          ELSE /\ rng' = rng + 4 * Len(users[1])
               /\ script' = IF m.ok
                            THEN [pc |-> "done", csv_file |-> to_csv(m.df)]
                            ELSE [script EXCEPT !.pc = "failed"]
    /\ UNCHANGED <<csv_file, started, calls, pc, users, df_raw, df_secure,
                   store_before, df_final, metrics, environ, crypto_utils>>

\* API_Ingestion.py:217, to_csv has opened the file and the write raises.
ScriptMainWriteFails ==
    /\ script.pc = "fetched"
    /\ MainProtect(users[1], rng).ok
    /\ MainMerge(script.csv_file, MainProtect(users[1], rng).main_cols).ok
    /\ rng' = rng + 4 * Len(users[1])
    /\ script' = [pc |-> "write_failed", csv_file |-> Truncated]
    /\ UNCHANGED <<csv_file, started, calls, pc, users, df_raw, df_secure,
                   store_before, df_final, metrics, environ, crypto_utils>>

NextScript ==
    \/ ScriptMain
    \/ ScriptMainWriteFails
    \/ Transform(1)
    \/ MergeRead(1)
    \/ OpenForWrite(1)
    \/ WriteAndClose(1)
    \/ WriteFails(1)
    \/ Metrics(1)

SpecScript == InitScript /\ [][NextScript]_vars

\* ------------------------------------------------------------------ claims
IdOf(row) == row["login.uuid"]
IdsOf(rows) == {IdOf(rows[i]) : i \in 1..Len(rows)}
RowsWithId(rows, id) == {rows[i] : i \in {j \in 1..Len(rows) : IdOf(rows[j]) = id}}
FirstWithId(rows, id) ==
    rows[CHOOSE i \in 1..Len(rows) :
           IdOf(rows[i]) = id /\ \A j \in 1..(i - 1) : IdOf(rows[j]) # id]

\* The run of worker w has written its merged store.
MergeDone(w) == pc[w] \in {"written", "done"}

\* C1: after a merge, every id of the existing store has exactly the
\* existing record in the merged store (never the incoming one), and every
\* incoming id that the existing store lacked has its first incoming record.
MergeKeepsFirstOccurrence ==
    \A w \in Workers :
      MergeDone(w) =>
        LET old == store_before[w].rows
            inc == to_csv(df_secure[w]).rows
        IN /\ \A id \in IdsOf(old) :
                RowsWithId(csv_file.rows, id) = {FirstWithId(old, id)}
           /\ \A id \in IdsOf(inc) \ IdsOf(old) :
                RowsWithId(csv_file.rows, id) = {FirstWithId(inc, id)}

\* C2: merging the same batch a second time leaves the store exactly as the
\* first merge left it.
MergeIdempotent == calls >= 2 => csv_file = store_before[1]

\* The run of worker w is past upsert's read of the store.
InUpsert(w) == df_final[w] # EmptyFrame

\* C3: from the moment a merge has read the store, the file is the complete
\* store it found or the complete merged store; a merge that failed while
\* writing left the store it found.
StoreWriteAtomic ==
    \A w \in Workers :
      /\ (InUpsert(w) /\ pc[w] # "failed") =>
            csv_file \in {store_before[w], to_csv(df_final[w])}
      /\ (InUpsert(w) /\ pc[w] = "failed") => csv_file = store_before[w]

\* The run of worker w has read the store and not yet written it back.
InReadMergeWrite(w) == pc[w] \in {"merged", "opened"}

\* C4: no two runs are inside the read-merge-write sequence at once.
MergeMutualExclusion ==
    \A w, v \in Workers :
      (w # v /\ InReadMergeWrite(w)) => ~InReadMergeWrite(v)

\* C5: once all the runs triggered together are done, the store has a
\* record for every id of each run's incoming batch and of the store each
\* run found.
NoLostUpdate ==
    (\A w \in Workers : pc[w] = "done") =>
       \A w \in Workers :
         IdsOf(df_secure[w].rows) \cup IdsOf(store_before[w].rows)
           \subseteq IdsOf(csv_file.rows)

\* C6: the persisted store never holds two records with the same
\* login.uuid.
StoreIdsUnique ==
    \A i, j \in 1..Len(csv_file.rows) :
      i # j => IdOf(csv_file.rows[i]) # IdOf(csv_file.rows[j])

\* A second run, whose batch repeats an id and whose store already had
\* records, has written the store.
StoreIdsUniqueWitness ==
    /\ pc[1] = "done"
    /\ Len(store_before[1].rows) >= 1
    /\ Len(df_secure[1].rows) = 2
    /\ Cardinality(IdsOf(df_secure[1].rows)) = 1
    /\ IdsOf(df_secure[1].rows) \cap IdsOf(store_before[1].rows) = {}
    /\ Len(csv_file.rows) = 2

\* A user of the batch lacks the password field.
Malformed(u) == "password" \notin DOMAIN u.login

RECURSIVE WellFormedIds(_)
WellFormedIds(us) ==
    IF us = <<>> THEN <<>>
    ELSE IF Malformed(Head(us)) THEN WellFormedIds(Tail(us))
         ELSE <<Str(Head(us).login.uuid)>> \o WellFormedIds(Tail(us))

\* transform_users has been called on worker w's batch.
TransformCalled(w) == users[w] # <<>> /\ pc[w] # "fetched"

StoreColumns == {"login.uuid", "name.first"} \cup ProtectedColumns

\* C7: when one user of the batch lacks the password and another does not,
\* transform returns the protected records of all the other users, in
\* order, and the run goes on.
TransformSkipsMalformed ==
    \A w \in Workers :
      (/\ TransformCalled(w)
       /\ \E i \in 1..Len(users[w]) : Malformed(users[w][i])
       /\ \E i \in 1..Len(users[w]) : ~Malformed(users[w][i]))
        => /\ df_secure[w].cols = StoreColumns
           /\ [i \in 1..Len(df_secure[w].rows) |-> IdOf(df_secure[w].rows[i])]
                = WellFormedIds(users[w])

EmptyPassword(u) == ~Malformed(u) /\ u.login.password = <<>>

EmptyPasswords(us) == {i \in 1..Len(us) : EmptyPassword(us[i])}

DistinctIds(us) ==
    \A i, j \in 1..Len(us) : i # j => us[i].login.uuid # us[j].login.uuid

\* C8: a run on no prior store that fetched N users with distinct ids, k of
\* them with an empty password, protects N - k records, reports N fetched
\* and N - k stored, and leaves a store of N - k records.
EmptyPasswordsSkipped ==
    \A w \in Workers :
      (pc[w] = "done" /\ ~store_before[w].exists /\ DistinctIds(users[w])
         /\ \A i \in 1..Len(users[w]) : ~Malformed(users[w][i]))
        => LET N == Len(users[w])
               k == Cardinality(EmptyPasswords(users[w]))
           IN /\ Len(df_secure[w].rows) = N - k
              /\ metrics[w].rows_fetched = N
              /\ metrics[w].rows_after_dedup = N - k
              /\ Len(csv_file.rows) = N - k

\* transform_users has returned to worker w's run.
TransformReturned(w) == df_secure[w] # EmptyFrame

\* C9: nothing transform returns has a plaintext password, email, phone or
\* street column.
TransformReturnsNoPlaintext ==
    \A w \in Workers :
      TransformReturned(w) =>
        (df_raw[w].cols \cup df_secure[w].cols) \cap PlaintextColumns = {}

\* The non-empty plaintext values of the sensitive fields.
SensitiveValues == (Passwords \ {<<>>}) \cup {Email, Phone, Street}

\* C9 as amended: df_secure, the frame transform returns for the merge, has
\* none of the four plaintext columns and no plaintext sensitive value in
\* any cell (df_raw, returned beside it, keeps them).
SecureFrameHasNoPlaintext ==
    \A w \in Workers :
      TransformReturned(w) =>
        /\ df_secure[w].cols = StoreColumns
        /\ \A i \in 1..Len(df_secure[w].rows) : \A c \in df_secure[w].cols :
             LET v == df_secure[w].rows[i][c]
             IN ~(v.k = "str" /\ v.s \in SensitiveValues)

\* transform has returned two protected records to a run, and df_raw still
\* has the password column.
SecureFrameHasNoPlaintextWitness ==
    /\ pc[1] = "transformed"
    /\ Len(df_secure[1].rows) = 2
    /\ "login.password" \in df_raw[1].cols

FailedRunWritesNothing ==
    [][\A w \in Workers :
         (pc[w] \in {"idle", "fetched"} /\ pc'[w] # pc[w])
           => /\ csv_file' = csv_file
              /\ store_before'[w] = NoFile
              /\ df_final'[w] = EmptyFrame]_vars

\* A run that found a store with records has failed in transform.
FailedRunWritesNothingWitness ==
    /\ pc[1] = "failed"
    /\ users[1] # <<>>
    /\ df_secure[1] = EmptyFrame
    /\ Len(csv_file.rows) >= 1

\* The store file is there and pd.read_csv raises on it.
Unreadable(f) == f.exists /\ ~read_csv(f).ok

\* The run of worker w ended in upsert's read of the store.
MergeAborted(w) ==
    pc[w] = "failed" /\ df_secure[w] # EmptyFrame /\ df_final[w] = EmptyFrame

\* C12: a run that reaches the merge while the store file exists and cannot
\* be read fails there, with the file left as it is and no merged frame; and
\* no step of a failed run changes the file afterwards.
UnreadableStoreAborts ==
    [][\A w \in Workers :
         /\ (pc[w] = "transformed" /\ pc'[w] # pc[w] /\ Unreadable(csv_file))
              => /\ pc'[w] = "failed"
                 /\ csv_file' = csv_file
                 /\ df_final'[w] = EmptyFrame
         /\ (pc[w] = "failed" /\ pc'[w] # pc[w]) => csv_file' = csv_file]_vars

\* A run found the file an earlier failed write had left empty, and stopped
\* in the merge; the file is still as it was.
UnreadableStoreAbortsWitness ==
    /\ MergeAborted(1)
    /\ Len(df_secure[1].rows) >= 1
    /\ csv_file = Truncated

\* C13: the metrics a successful run returns have the keys records_fetched,
\* records_protected, records_after_merge, store_location, http_status and
\* retries_used, with the fetched, protected and merged counts.
MetricsHaveSpecKeys ==
    \A w \in Workers :
      pc[w] = "done" =>
        /\ DOMAIN metrics[w] =
             {"records_fetched", "records_protected", "records_after_merge",
              "store_location", "http_status", "retries_used"}
        /\ metrics[w].records_fetched = Len(users[w])
        /\ metrics[w].records_protected = Len(df_secure[w].rows)
        /\ metrics[w].records_after_merge = Len(df_final[w].rows)

\* C13 as amended: the metrics a successful run returns have exactly the
\* keys http_status, retries_used, rows_fetched, rows_after_dedup and
\* csv_path; rows_fetched is the number of users fetched, rows_after_dedup
\* the number of records the run wrote to the store, csv_path the store's
\* path.
MetricsOfSuccessfulRun ==
    \A w \in Workers :
      pc[w] = "done" =>
        /\ DOMAIN metrics[w] =
             {"http_status", "retries_used", "rows_fetched",
              "rows_after_dedup", "csv_path"}
        /\ metrics[w].rows_fetched = Len(users[w])
        /\ metrics[w].rows_after_dedup = Len(to_csv(df_final[w]).rows)
        /\ metrics[w].csv_path = "data/random_users.csv"

\* A run on a store of two records has fetched one user and returned.
MetricsOfSuccessfulRunWitness ==
    /\ pc[1] = "done"
    /\ Len(store_before[1].rows) = 2
    /\ metrics[1].rows_fetched = 1
    /\ metrics[1].rows_after_dedup = 2

\* The secret `name` of .env is present, is base64 text throughout where it
\* is a key, and decodes to the 32 bytes Fernet takes, or to at least one
\* byte of HMAC key.
WellFormedSecret(env, name) ==
    /\ name \in DOMAIN env
    /\ name = "PEPPER" => env[name] # <<>>
    /\ name # "PEPPER" =>
         /\ Count(env[name], B64Alphabet \cup {"="}) = Len(env[name])
         /\ b64decode(env[name]).ok
    /\ name = "FERNET_KEY" => b64decode(env[name]).n = 32
    /\ name = "BLIND_INDEX_KEY" => b64decode(env[name]).n >= 1

\* C14: the import succeeds, and a run gets under way, only when each of the
\* three secrets is present and well-formed.
SecretsFailFast ==
    (crypto_utils.state = "imported" \/ \E w \in Workers : pc[w] # "idle")
      => \A name \in SecretNames : WellFormedSecret(environ, name)

\* The text has no space at either end and no upper-case letter.
Canonical(t) ==
    /\ t # <<>> => ~IsSpace(t[1]) /\ ~IsSpace(t[Len(t)])
    /\ \A i \in 1..Len(t) : t[i] \notin {"A", "B", "N", "X"}

\* The email of the i-th fetched user of worker w, trimmed and lower-cased.
CanonicalEmail(w, i) == normalize_email(Str(users[w][i].email)).s

\* C15: in what transform returns, every email_bidx is the HMAC of a text
\* without surrounding whitespace and upper case, namely of the user's
\* email so normalized; two users have the same email_bidx exactly when
\* their emails have the same normal form.
BlindIndexOverCanonicalEmail ==
    \A w \in Workers :
      TransformReturned(w) =>
        \A i, j \in 1..Len(df_secure[w].rows) :
          LET bi == df_secure[w].rows[i]["email_bidx"]
              bj == df_secure[w].rows[j]["email_bidx"]
          IN /\ bi.k = "hmac"
             /\ Canonical(bi.s)
             /\ bi.s = CanonicalEmail(w, i)
             /\ (bi = bj) <=> (CanonicalEmail(w, i) = CanonicalEmail(w, j))

\* Two users whose emails differ in case and surrounding spaces have got
\* the same blind index.
BlindIndexOverCanonicalEmailWitness ==
    /\ TransformReturned(1)
    /\ users[1][1].email = <<" ", "A", "b">>
    /\ users[1][2].email = <<"a", "b", " ">>
    /\ df_secure[1].rows[1]["email_bidx"] = df_secure[1].rows[2]["email_bidx"]

EncryptedColumns ==
    {<<"email_enc", "email">>, <<"phone_enc", "phone">>,
     <<"street_name_enc", "location.street.name">>}

StageOrder ==
    {<<"idle", "fetched">>, <<"idle", "failed">>,
     <<"fetched", "transformed">>, <<"fetched", "failed">>,
     <<"transformed", "merged">>, <<"transformed", "failed">>,
     <<"merged", "opened">>,
     <<"opened", "written">>, <<"opened", "failed">>,
     <<"written", "done">>,
     <<"done", "idle">>, <<"failed", "idle">>}

\* C17: a run goes fetch, transform, merge, metrics, in this order and
\* without a step back; one fetch per run, and the batch changes at no
\* other step; the merge starts only on the frame transform returned; the
\* metrics are set only in the step after the write has returned.
StagesInOrder ==
    [][\A w \in Workers :
         /\ pc'[w] # pc[w] => <<pc[w], pc'[w]>> \in StageOrder
         /\ (pc'[w] # pc[w] /\ pc[w] = "idle") => started' = started + 1
         /\ (pc'[w] # pc[w] /\ pc[w] # "idle") => started' = started
         /\ (users'[w] # users[w]) => pc[w] \in {"idle", "done", "failed"}
         /\ (df_secure'[w] # df_secure[w]) => pc[w] \in {"fetched", "done", "failed"}
         /\ (pc'[w] = "merged" /\ pc[w] # "merged")
              => df_secure[w] # EmptyFrame /\ df_secure'[w] = df_secure[w]
         /\ (metrics'[w] # metrics[w] /\ metrics'[w] # NoMetrics)
              => pc[w] = "written" /\ csv_file' = csv_file]_vars

\* A run has gone through all its stages on a batch of two users.
StagesInOrderWitness ==
    /\ pc[1] = "done"
    /\ Len(users[1]) = 2
    /\ Len(df_secure[1].rows) = 2
    /\ csv_file.exists
    /\ metrics[1] # NoMetrics

\* The index in rows of the first row with the id.
FirstIndex(rows, id) ==
    CHOOSE i \in 1..Len(rows) :
      IdOf(rows[i]) = id /\ \A j \in 1..(i - 1) : IdOf(rows[j]) # id

\* rows is inc with, of each id, only the first record, in inc's order.
IsFirstOccurrences(rows, inc) ==
    /\ IdsOf(rows) = IdsOf(inc)
    /\ Len(rows) = Cardinality(IdsOf(inc))
    /\ \A i \in 1..Len(rows) : rows[i] = inc[FirstIndex(inc, IdOf(rows[i]))]
    /\ \A i, j \in 1..Len(rows) :
         i < j => FirstIndex(inc, IdOf(rows[i])) < FirstIndex(inc, IdOf(rows[j]))

\* C18: the store file comes into being only in the write of a merge, never
\* in a fetch or transform step; and when a merge that found no store is
\* the first to write records, the store is then the incoming batch with,
\* of each id, only its first record.
StoreCreatedByFirstMerge ==
    [][/\ (~csv_file.exists /\ csv_file'.exists)
            => \E w \in Workers : pc[w] = "merged" /\ pc'[w] = "opened"
       /\ \A w \in Workers :
            (/\ pc[w] = "opened" /\ pc'[w] = "written"
             /\ ~store_before[w].exists /\ csv_file.rows = <<>>)
              => /\ csv_file'.exists
                 /\ csv_file'.hdr = df_secure[w].cols
                 /\ IsFirstOccurrences(csv_file'.rows, to_csv(df_secure[w]).rows)]_vars

\* The first merge has created the store from a batch of two records with
\* the same id: the store has the first of them.
StoreCreatedByFirstMergeWitness ==
    /\ pc[1] = "written"
    /\ ~store_before[1].exists
    /\ Len(df_secure[1].rows) = 2
    /\ Len(csv_file.rows) = 1
    /\ df_secure[1].rows[1]["name.first"] # df_secure[1].rows[2]["name.first"]
    /\ csv_file.rows[1]["name.first"] = df_secure[1].rows[1]["name.first"]

NoDuplicateIds(rows) ==
    \A i, j \in 1..Len(rows) : i # j => IdOf(rows[i]) # IdOf(rows[j])

\* C19: after a merge into a store without duplicate ids, the store begins
\* with the records it had, unchanged and in place, followed by the first
\* incoming record of each id it lacked, in incoming order.
StoreAppendOnly ==
    \A w \in Workers :
      (MergeDone(w) /\ NoDuplicateIds(store_before[w].rows)) =>
        LET old == store_before[w].rows
            IsNew(r) == IdOf(r) \notin IdsOf(old)
            inc == SelectSeq(to_csv(df_secure[w]).rows, IsNew)
        IN /\ Len(csv_file.rows) >= Len(old)
           /\ SubSeq(csv_file.rows, 1, Len(old)) = old
           /\ IsFirstOccurrences(
                SubSeq(csv_file.rows, Len(old) + 1, Len(csv_file.rows)), inc)

\* The ids of a fetched batch, as cells.
UserIds(us) == {Str(us[i].login.uuid) : i \in 1..Len(us)}

\* C20: the write of a merge leaves a store whose ids are those of the store
\* it found and those of the incoming batch, no other and no fewer, with at
\* least as many records as before and at most the incoming ones more; and
\* once all the runs made one after the other are done, in whichever
\* order, the store's ids are the ids of all their batches.
StoreIdsAreUnion ==
    [][/\ \A w \in Workers :
            (pc[w] = "opened" /\ pc'[w] = "written") =>
              /\ IdsOf(csv_file'.rows) =
                   IdsOf(store_before[w].rows) \cup IdsOf(df_secure[w].rows)
              /\ IdsOf(df_secure[w].rows) = UserIds(users[w])
              /\ Len(csv_file'.rows) >= Len(store_before[w].rows)
              /\ Len(csv_file'.rows) <=
                   Len(store_before[w].rows) + Len(df_secure[w].rows)
       /\ (\A w \in Workers : pc'[w] = "done")
            => IdsOf(csv_file'.rows) = UNION {UserIds(users[w]) : w \in Workers}]_vars

\* Both runs are done, the run with id u2 before the run with id u1.
StoreIdsAreUnionWitness ==
    /\ \A w \in Workers : pc[w] = "done"
    /\ UserIds(users[1]) = {Str(Uuid(1))}
    /\ UserIds(users[2]) = {Str(Uuid(2))}
    /\ IdsOf(store_before[1].rows) = {Str(Uuid(2))}
    /\ Len(csv_file.rows) = 2

\* A cell without the salt or IV drawn for it.
Unrandomized(v) == IF v.k \in {"argon2", "fernet"} THEN [v EXCEPT !.n = 0] ELSE v

UnrandomizedRows(rows, cols) ==
    [i \in 1..Len(rows) |-> [c \in cols |-> Unrandomized(rows[i][c])]]

\* A store file with every salt and IV blanked: its header, its ids in
\* order and every field value that is not randomized.
UnrandomizedFile(f) ==
    [exists |-> f.exists, hdr |-> f.hdr, rows |-> UnrandomizedRows(f.rows, f.hdr)]

\* Both pipelines have come to their end, neither by a failed write.
BothEnded ==
    /\ pc[1] \in {"done", "failed"}
    /\ script.pc \in {"done", "failed"}
    /\ ~(pc[1] = "failed" /\ InUpsert(1))

\* C21: API_Ingestion.main and run_ingestion_job, run from the same prior
\* store on the same fetched users, protect the same columns to the same
\* frame up to salts and IVs; both succeed or both fail; and they leave
\* stores with the same header, the same ids in the same order and the same
\* values in every field but for the salts and IVs.
ScriptEquivalentToJob ==
    /\ TransformReturned(1) =>
         LET p == MainProtect(users[1], rng)
         IN /\ p.ok
            /\ p.main_cols.cols = df_secure[1].cols
            /\ UnrandomizedRows(p.main_cols.rows, p.main_cols.cols)
                 = UnrandomizedRows(df_secure[1].rows, df_secure[1].cols)
    /\ BothEnded =>
         /\ (pc[1] = "done") <=> (script.pc = "done")
         /\ UnrandomizedFile(csv_file) = UnrandomizedFile(script.csv_file)
         /\ [i \in 1..Len(csv_file.rows) |-> IdOf(csv_file.rows[i])]
              = [i \in 1..Len(script.csv_file.rows) |->
                   IdOf(script.csv_file.rows[i])]

\* Both have merged a batch of two users, one of them new, into a store of
\* one record: two records in each store, the new one with its own salts
\* and IVs in each.
ScriptEquivalentToJobWitness ==
    /\ pc[1] = "done"
    /\ script.pc = "done"
    /\ Len(store_before[1].rows) = 1
    /\ Len(users[1]) = 2
    /\ Len(csv_file.rows) = 2
    /\ csv_file # script.csv_file
====
